---- MODULE Spec2Model ----
(***************************************************************************)
(* TinyDataTable: the row sources (LocalDataSource, AjaxLoadOnceDataSource, *)
(* AjaxDataSource) and the draw cycle of TinyDataTable, as state machines.  *)
(*                                                                         *)
(* JavaScript strings are sequences of one-character strings, so that       *)
(* toLowerCase, indexOf, trim, String(), Number() and localeCompare are     *)
(* computed and not assumed.  Cell values are tagged records.               *)
(***************************************************************************)
EXTENDS Integers, Sequences, FiniteSets, TLC

VARIABLES
    engine,        \* the host's Array.prototype.sort algorithm
    opts,          \* construction options of the table
    original,      \* LocalDataSource.original: the backing array (row objects)
    dtIndex,       \* the __dt_index property of every row object
    qs,            \* the QueryState handed to load (this.state)
    results,       \* what the loads made with the present QueryState and data returned
    setDataCalls,  \* number of setData calls after construction
    drawSeq,       \* _internals.drawSeq
    pending,       \* draws whose load has not settled yet, each with this.state
                   \* as it was when the draw called load
    totalRows,     \* state.totalRows
    lastPageRows,  \* _lastPageRows
    body,          \* rows rendered in tbody by _renderBody
    loading,       \* the "loading" class of the table element
    loaded,        \* AjaxLoadOnceDataSource._loaded
    fetches,       \* outbound fetches issued since construction or the latest refresh()
    errorsReported,\* calls of the error hook / error events
    lastSettled,   \* the draw whose load settled last, and how
    lastCommit,    \* the draw that committed last, and what its fetch yielded
    selectedRowKeys,     \* _selectedRowKeys
    pageParentRowKeys,   \* _pageParentRowKeys
    pageGroupRowKeyMap,  \* _pageGroupRowKeyMap
    boxes,               \* the row checkboxes rendered in tbody: row key -> checked
    headerSelect,        \* the header select-all checkbox
    expandedRowKeys,     \* _expandedRowKeys
    childTrs,            \* rendered child rows: parent row key -> how many
    childFetches,        \* child requests issued by _loadLazyChildren
    exports,             \* savedPagingEnabled of the getFullData calls not settled yet
    lastOp               \* the method or control handler of the table called last

localVars == <<engine, opts, original, dtIndex, qs, results, setDataCalls>>
drawVars  == <<drawSeq, pending, totalRows, lastPageRows, body, loading, loaded,
               fetches, errorsReported, lastSettled, lastCommit>>
tableVars == <<selectedRowKeys, pageParentRowKeys, pageGroupRowKeyMap, boxes,
               headerSelect, expandedRowKeys, childTrs, childFetches, exports>>
vars      == <<engine, opts, original, dtIndex, qs, results, setDataCalls,
               drawSeq, pending, totalRows, lastPageRows, body, loading, loaded,
               fetches, errorsReported, lastSettled, lastCommit,
               selectedRowKeys, pageParentRowKeys, pageGroupRowKeyMap, boxes,
               headerSelect, expandedRowKeys, childTrs, childFetches, exports, lastOp>>

(***************************************************************************)
(* Bounds of the model.                                                     *)
(***************************************************************************)
MaxRows    == 4    \* longest data array handed to the constructor or setData
MaxPage    == 3    \* largest page number requested
MaxLoads   == 2    \* loads recorded for one QueryState and data
MaxSetData == 1    \* setData calls after construction
MaxFirstRows == 2  \* longest constructor array of a source whose data is replaced later
MaxDraws   == 3    \* draws started on one table (the constructor's included)
MaxServerRows == 2 \* longest row list a response carries
MaxChildTrs == 2   \* most child rows rendered under one parent
MaxExports == 2    \* getFullData calls in flight at once

Min(S) == CHOOSE x \in S : \A y \in S : x <= y
Max(S) == CHOOSE x \in S : \A y \in S : x >= y

(***************************************************************************)
(* Cell values: null/undefined, numbers, strings, booleans.                 *)
(***************************************************************************)
Null    == [k |-> "null", n |-> 0, s |-> <<>>]
Num(x)  == [k |-> "num",  n |-> x, s |-> <<>>]
Str(x)  == [k |-> "str",  n |-> 0, s |-> x]
Bool(b) == [k |-> "bool", n |-> IF b THEN 1 ELSE 0, s |-> <<>>]

IsNull(v) == v.k = "null"          \* v == null
Truthy(v) == CASE v.k = "null" -> FALSE
               [] v.k = "num"  -> v.n # 0
               [] v.k = "str"  -> v.s # <<>>
               [] OTHER        -> v.n = 1

(***************************************************************************)
(* Strings.                                                                 *)
(***************************************************************************)
Letters  == <<"a","b","c","d","e","f","g","h","i","j","k","l","m",
              "n","o","p","q","r","s","t","u","v","w","x","y","z">>
Capitals == <<"A","B","C","D","E","F","G","H","I","J","K","L","M",
              "N","O","P","Q","R","S","T","U","V","W","X","Y","Z">>
Digits   == <<"0","1","2","3","4","5","6","7","8","9">>
Marks    == <<" ", "-", "/", "<", ">">>

PosIn(seq, c) == IF \E i \in DOMAIN seq : seq[i] = c
                 THEN CHOOSE i \in DOMAIN seq : seq[i] = c
                 ELSE 0

\* String.prototype.toLowerCase
LowerAt(p, c) == IF p > 0 THEN Letters[p] ELSE c
ToLowerChar(c) == LowerAt(PosIn(Capitals, c), c)
ToLowerCase(s) == [i \in DOMAIN s |-> ToLowerChar(s[i])]

\* String.prototype.trim
IsBlank(s) == \A i \in DOMAIN s : s[i] = " "
Trim(s) == IF IsBlank(s) THEN <<>>
           ELSE SubSeq(s, Min({i \in DOMAIN s : s[i] # " "}),
                          Max({i \in DOMAIN s : s[i] # " "}))

\* s.indexOf(q) !== -1
Contains(s, q) == \E i \in 0..(Len(s) - Len(q)) : SubSeq(s, i + 1, i + Len(q)) = q

\* String(n) for a non-negative integer
RECURSIVE NumToStr(_)
NumToStr(n) == IF n < 10 THEN <<Digits[n + 1]>>
               ELSE Append(NumToStr(n \div 10), Digits[(n % 10) + 1])

\* String(v) for a non-null value
ToStr(v) == CASE v.k = "num"  -> NumToStr(v.n)
              [] v.k = "str"  -> v.s
              [] v.k = "bool" -> IF v.n = 1 THEN <<"t","r","u","e">>
                                 ELSE <<"f","a","l","s","e">>
              [] OTHER        -> <<"n","u","l","l">>

\* s.replace(/<[^>]*>/g, '')
RECURSIVE StripTags(_)
StripTags(s) ==
    LET opens == {i \in DOMAIN s : s[i] = "<" /\ \E j \in (i + 1)..Len(s) : s[j] = ">"}
    IN  IF opens = {} THEN s
        ELSE LET i == Min(opens)
                 j == Min({x \in (i + 1)..Len(s) : s[x] = ">"})
             IN  SubSeq(s, 1, i - 1) \o StripTags(SubSeq(s, j + 1, Len(s)))

\* Number(s): blank is 0, a run of decimal digits is its value, anything else NaN
RECURSIVE DigitsValue(_)
DigitsValue(s) == IF s = <<>> THEN 0
                  ELSE 10 * DigitsValue(SubSeq(s, 1, Len(s) - 1))
                       + (PosIn(Digits, s[Len(s)]) - 1)
ToNumber(s) ==
    LET t == Trim(s)
    IN  IF t = <<>> THEN [nan |-> FALSE, n |-> 0]
        ELSE IF \A i \in DOMAIN t : PosIn(Digits, t[i]) > 0
             THEN [nan |-> FALSE, n |-> DigitsValue(t)]
             ELSE [nan |-> TRUE, n |-> 0]

\* Date.parse(s), in milliseconds: the ISO dates of the first days of 1970
IsoDay(s) == IF Len(s) = 10 /\ SubSeq(s, 1, 8) = <<"1","9","7","0","-","0","1","-">>
                /\ PosIn(Digits, s[9]) > 0 /\ PosIn(Digits, s[10]) > 0
             THEN DigitsValue(SubSeq(s, 9, 10)) ELSE 0
DateParse(s) == IF IsoDay(s) \in 1..24
                THEN [nan |-> FALSE, n |-> (IsoDay(s) - 1) * 86400000]
                ELSE [nan |-> TRUE, n |-> 0]

\* a.localeCompare(b): primary weights first (marks < digits < letters, case
\* ignored), then lower case before upper case at the first difference
WeightOf(m, d, l) == IF m > 0 THEN m ELSE IF d > 0 THEN 10 + d ELSE 30 + l
WeightLower(lc) == WeightOf(PosIn(Marks, lc), PosIn(Digits, lc), PosIn(Letters, lc))
Weight(c) == WeightLower(ToLowerChar(c))
Weights(s) == [i \in DOMAIN s |-> Weight(s[i])]
Differences(a, b) == {i \in 1..Min({Len(a), Len(b)}) : a[i] # b[i]}
Sign(less) == IF less THEN -1 ELSE 1
CompareWeighted(a, b, wa, wb, dp, dc) ==
    IF dp # {} THEN Sign(wa[Min(dp)] < wb[Min(dp)])
    ELSE IF Len(a) # Len(b) THEN Sign(Len(a) < Len(b))
    ELSE IF dc # {} THEN Sign(PosIn(Letters, a[Min(dc)]) > 0)
    ELSE 0
CompareStrings(a, b, wa, wb) ==
    CompareWeighted(a, b, wa, wb, Differences(wa, wb), Differences(a, b))
LocaleCompare(a, b) == CompareStrings(a, b, Weights(a), Weights(b))

(***************************************************************************)
(* The row objects handed to the table, and the table's configuration.      *)
(* A data array is a sequence of distinct row objects of the pool.          *)
(***************************************************************************)
RowData == <<
    [id |-> Num(1), name |-> Str(<<"A","n","n">>), age |-> Num(9), rank |-> Num(1),
     nick |-> Null, vip |-> Bool(TRUE), children |-> <<>>],
    [id |-> Num(2), name |-> Str(<<"B","o","b">>), age |-> Num(9), rank |-> Null,
     nick |-> Str(<<"<","i",">","7","<","/","i",">">>), vip |-> Bool(FALSE),
     children |-> <<[note |-> Str(<<"J","a","n">>)]>>],
    [id |-> Num(3), name |-> Str(<<"C","i","d">>), age |-> Num(10), rank |-> Num(1),
     nick |-> Str(<<"D","A","N">>), vip |-> Bool(TRUE), children |-> <<>>],
    [id |-> Num(4), name |-> Str(<<"D","e","e">>), age |-> Str(<<"1","a">>), rank |-> Num(2),
     nick |-> Null, vip |-> Null, children |-> <<[note |-> Null]>>] >>

Pool == DOMAIN RowData

\* row[key]
FieldOf(row, key) == CASE key = "id"   -> row.id
                       [] key = "name" -> row.name
                       [] key = "age"  -> row.age
                       [] key = "rank" -> row.rank
                       [] key = "nick" -> row.nick
                       [] key = "vip"  -> row.vip
                       [] OTHER        -> Null
RowField(r, key) == FieldOf(RowData[r], key)
ChildField(c, key) == IF key = "note" THEN c.note ELSE Null

DataInputs == {d \in UNION {[1..n -> Pool] : n \in 0..MaxRows} :
                  \A i, j \in DOMAIN d : i # j => d[i] # d[j]}

\* options.columns after the constructor's defaults and normalizeColumn
Columns(o) == <<
    [key |-> "name", sortable |-> TRUE, searchable |-> "name" \in o.searchable,
     visible |-> TRUE, isSyntheticKey |-> FALSE, render |-> "none"],
    [key |-> "age", sortable |-> TRUE, searchable |-> "age" \in o.searchable,
     visible |-> TRUE, isSyntheticKey |-> FALSE, render |-> "none"],
    [key |-> "rank", sortable |-> TRUE, searchable |-> FALSE,
     visible |-> TRUE, isSyntheticKey |-> FALSE, render |-> "none"],
    [key |-> "__col_3", sortable |-> TRUE, searchable |-> "__col_3" \in o.searchable,
     visible |-> TRUE, isSyntheticKey |-> TRUE, render |-> "nick"],
    [key |-> "vip", sortable |-> FALSE, searchable |-> FALSE,
     visible |-> FALSE, isSyntheticKey |-> FALSE, render |-> "none"] >>

\* options.childRows.columns
ChildColumns(o) == <<
    [key |-> "note", sortable |-> TRUE, searchable |-> TRUE,
     visible |-> o.childColVisible, isSyntheticKey |-> FALSE, render |-> "none"] >>

\* options.filters.items
FilterDefs == <<
    [key |-> "vip",  type |-> "bool",   predicate |-> "none"],
    [key |-> "age",  type |-> "select", predicate |-> "none"],
    [key |-> "kids", type |-> "select", predicate |-> "hasChildren"] >>

AllSearchable == {"name", "age", "__col_3"}

\* options.defaultSort: absent, an object map (its own string keys in insertion
\* order, each with the direction given for it), or an array of {key, dir}
NoSort == [form |-> "none", orders |-> <<>>]
BaseOptions == [source |-> "local", searchable |-> AllSearchable, childRows |-> TRUE,
                childColVisible |-> TRUE, filters |-> TRUE, paging |-> FALSE,
                pageSize |-> 2, fetchFn |-> FALSE, transform |-> FALSE,
                select |-> TRUE, grouping |-> FALSE, groupMode |-> "row",
                lazyLoad |-> FALSE, defaultSort |-> NoSort,
                groupingKeys |-> <<"rank">>, mergeColumns |-> {}]
TableOptions == { BaseOptions,
                  [BaseOptions EXCEPT !.searchable = {}],
                  [BaseOptions EXCEPT !.childColVisible = FALSE],
                  [BaseOptions EXCEPT !.childRows = FALSE, !.filters = FALSE] }

(***************************************************************************)
(* LocalDataSource                                                          *)
(***************************************************************************)
NoIndex == -1     \* the row object has no own __dt_index property

\* _attachOriginalIndex: a row that already owns __dt_index keeps it
AttachOriginalIndex(dt, data) ==
    [r \in Pool |-> IF dt[r] # NoIndex THEN dt[r]
                    ELSE IF \E i \in DOMAIN data : data[i] = r
                         THEN (CHOOSE i \in DOMAIN data : data[i] = r) - 1
                         ELSE NoIndex]

\* a renderer of the configuration, called by _renderValue
RenderValue(col, r, phase) == IF col.render = "nick" THEN RowField(r, "nick") ELSE Null

\* getValue(col, row, phase) of getFilteredRows
GetValue(col, r, phase) ==
    IF col.key # "" /\ ~col.isSyntheticKey THEN RowField(r, col.key)
    ELSE IF col.render # "none" THEN RenderValue(col, r, phase)
    ELSE Null

\* hasActiveFilters
HasActiveFilters(active) ==
    \E k \in DOMAIN active :
        ~IsNull(active[k]) /\ active[k] # Str(<<>>) /\ active[k] # Bool(FALSE)

FindFilter(defs, key) ==
    IF \E i \in DOMAIN defs : defs[i].key = key
    THEN defs[CHOOSE i \in DOMAIN defs : defs[i].key = key]
    ELSE [key |-> "", type |-> "", predicate |-> "none"]
FilterDef(key) == FindFilter(FilterDefs, key)

\* a predicate of the configuration: (row, value, ctx) => boolean
FilterPredicate(name, r, value) == Len(RowData[r].children) > 0

\* the callback of rows.filter for the column filters
PassesFilter(r, def, value, cell) ==
    IF def.type = "bool" /\ ~Truthy(value) THEN TRUE
    ELSE IF def.type # "bool" /\ (IsNull(value) \/ value = Str(<<>>)) THEN TRUE
    ELSE IF def.predicate # "none" THEN FilterPredicate(def.predicate, r, value)
    ELSE IF def.type = "bool" THEN Truthy(cell)
    ELSE ~IsNull(cell) /\ ToStr(cell) = ToStr(value)
PassesFilters(r, active) ==
    \A key \in DOMAIN active :
        PassesFilter(r, FilterDef(key), active[key], RowField(r, key))

\* _getChildrenForRow
GetChildrenForRow(r, o) ==
    IF ~o.childRows THEN <<>> ELSE RowData[r].children

\* _getChildColumnsForParent
GetChildColumnsForParent(r, o) == SelectSeq(ChildColumns(o), LAMBDA c : c.visible)

SearchableCols(o) == SelectSeq(Columns(o), LAMBDA c : c.searchable)

ValueMatches(v, q) == ~IsNull(v) /\ Contains(ToLowerCase(ToStr(v)), q)

\* the callback of rows.filter for the search text
ParentMatch(r, q, cols) ==
    \E i \in DOMAIN cols : ValueMatches(GetValue(cols[i], r, "search"), q)
ChildMatch(q, enabled, children, childCols) ==
    /\ enabled
    /\ children # <<>>
    /\ childCols # <<>>
    /\ \E i \in DOMAIN children : \E j \in DOMAIN childCols :
          ValueMatches(ChildField(children[i], childCols[j].key), q)
MatchesSearch(r, q, o) ==
    \/ ParentMatch(r, q, SearchableCols(o))
    \/ ChildMatch(q, o.childRows, GetChildrenForRow(r, o),
                  SelectSeq(GetChildColumnsForParent(r, o),
                            LAMBDA c : c.searchable /\ c.key # ""))

FilterRows(rows, st, o) ==
    IF HasActiveFilters(st.filters) /\ o.filters
    THEN SelectSeq(rows, LAMBDA r : PassesFilters(r, st.filters))
    ELSE rows

SearchRows(rows, st, o) ==
    IF st.searchText # <<>> /\ Trim(st.searchText) # <<>> /\ SearchableCols(o) # <<>>
    THEN SelectSeq(rows, LAMBDA r : MatchesSearch(r, ToLowerCase(st.searchText), o))
    ELSE rows

\* sortSpecs: the sort orders that name a sortable column, with their direction
NoColumn == [key |-> "", sortable |-> FALSE, searchable |-> FALSE, visible |-> FALSE,
             isSyntheticKey |-> FALSE, render |-> "none"]
FindSortable(cols, key) ==
    IF \E i \in DOMAIN cols : cols[i].sortable /\ cols[i].key = key
    THEN cols[CHOOSE i \in DOMAIN cols : cols[i].sortable /\ cols[i].key = key]
    ELSE NoColumn
SortableCol(key, o) == FindSortable(Columns(o), key)
SpecsOf(known, o) ==
    [i \in DOMAIN known |->
        [col |-> SortableCol(known[i].key, o),
         dir |-> IF known[i].dir = "desc" THEN -1 ELSE 1]]
SortSpecs(st, o) ==
    SpecsOf(SelectSeq(st.sortOrders,
                      LAMBDA ord : ord.key # "" /\ SortableCol(ord.key, o).key # ""), o)

\* the precomputed sort key of one row for one sort spec: {t, v}
TypedKey(n, d, str) ==
    IF ~n.nan THEN [t |-> "num", v |-> n.n, s |-> NumToStr(n.n)]
    ELSE IF ~d.nan THEN [t |-> "date", v |-> d.n, s |-> NumToStr(d.n)]
    ELSE [t |-> "str", v |-> 0, s |-> str]
KeyOfString(str) == TypedKey(ToNumber(str), DateParse(str), str)
KeyOfValue(v) == IF IsNull(v) THEN [t |-> "n", v |-> 0, s |-> <<>>]
                 ELSE KeyOfString(StripTags(ToStr(v)))
SortKey(col, r) == KeyOfValue(GetValue(col, r, "sort"))

\* keyed: {row, keys}, with the row's __dt_index as the comparator reads it
Keyed(rows, dt, specs) ==
    [i \in DOMAIN rows |->
        [row  |-> rows[i],
         keys |-> [j \in DOMAIN specs |-> SortKey(specs[j].col, rows[i])],
         ix   |-> IF dt[rows[i]] # NoIndex THEN dt[rows[i]] ELSE 0]]

\* the difference of two non-null keys: by type when both match, otherwise the
\* locale comparison of their strings
KeyDiff(ka, kb) ==
    IF ka.t = kb.t /\ ka.t \in {"num", "date"} THEN ka.v - kb.v
    ELSE LocaleCompare(ka.s, kb.s)

\* "if (diff !== 0) return diff * dir", or on to the next spec
OrNext(diff, next) == IF diff # 0 THEN diff ELSE next

\* the comparator handed to keyed.sort, from spec i on
RECURSIVE CompareFrom(_, _, _, _)
CompareFrom(a, b, specs, i) ==
    IF i > Len(specs) THEN a.ix - b.ix
    ELSE LET dir == specs[i].dir
             ka  == a.keys[i]
             kb  == b.keys[i]
         IN  IF ka.t = "n" /\ kb.t = "n" THEN CompareFrom(a, b, specs, i + 1)
             ELSE IF ka.t = "n" THEN 1
             ELSE IF kb.t = "n" THEN -1
             ELSE OrNext(KeyDiff(ka, kb) * dir, CompareFrom(a, b, specs, i + 1))
Compare(a, b, specs) == CompareFrom(a, b, specs, 1)

\* Array.prototype.sort is stable; with a comparator that is no consistent
\* ordering its result is implementation-defined.  Two stable algorithms stand for
\* the hosts: straight insertion and top-down merge.
Engines == {"insertion", "merge"}

InsertAt(sorted, x, p) == SubSeq(sorted, 1, p - 1) \o <<x>> \o SubSeq(sorted, p, Len(sorted))
FirstOf(after, none) == IF after = {} THEN none ELSE Min(after)
InsertSorted(sorted, x, specs) ==
    InsertAt(sorted, x,
             FirstOf({j \in DOMAIN sorted :
                         \A k \in j..Len(sorted) : Compare(sorted[k], x, specs) > 0},
                     Len(sorted) + 1))
RECURSIVE InsertionSort(_, _)
InsertionSort(s, specs) ==
    IF s = <<>> THEN <<>>
    ELSE InsertSorted(InsertionSort(SubSeq(s, 1, Len(s) - 1), specs), s[Len(s)], specs)

RECURSIVE Merge(_, _, _)
Merge(l, r, specs) ==
    IF l = <<>> THEN r
    ELSE IF r = <<>> THEN l
    ELSE IF Compare(Head(l), Head(r), specs) <= 0
         THEN <<Head(l)>> \o Merge(Tail(l), r, specs)
         ELSE <<Head(r)>> \o Merge(l, Tail(r), specs)
RECURSIVE MergeSort(_, _)
MergeSort(s, specs) ==
    IF Len(s) <= 1 THEN s
    ELSE LET m == Len(s) \div 2
         IN  Merge(MergeSort(SubSeq(s, 1, m), specs),
                   MergeSort(SubSeq(s, m + 1, Len(s)), specs), specs)

ArraySort(eng, s, specs) ==
    IF eng = "insertion" THEN InsertionSort(s, specs) ELSE MergeSort(s, specs)

RowsOf(sorted) == [i \in DOMAIN sorted |-> sorted[i].row]
SortWith(rows, dt, specs, eng) ==
    IF specs = <<>> THEN rows
    ELSE RowsOf(ArraySort(eng, Keyed(rows, dt, specs), specs))
SortRows(rows, dt, st, o, eng) == SortWith(rows, dt, SortSpecs(st, o), eng)

\* getFilteredRows(state, columns): filters, then search, then sort
GetFilteredRows(orig, dt, st, o, eng) ==
    SortRows(SearchRows(FilterRows(orig, st, o), st, o), dt, st, o, eng)

\* Array.prototype.slice(start, end) with 0 <= start <= end
ArraySlice(rows, start, end) == SubSeq(rows, start + 1, Min({end, Len(rows)}))

\* a paging step that falls back to the last page when the page is out of range
PageSliceClamped(rows, st) ==
    IF st.pagingEnabled
    THEN LET last == Max({1, (Len(rows) + st.pageSize - 1) \div st.pageSize})
             page == Min({st.page, last})
         IN  ArraySlice(rows, (page - 1) * st.pageSize,
                        (page - 1) * st.pageSize + st.pageSize)
    ELSE rows

\* the paging step of load
PageSlice(rows, st) ==
    IF st.pagingEnabled
    THEN ArraySlice(rows, (st.page - 1) * st.pageSize,
                    (st.page - 1) * st.pageSize + st.pageSize)
    ELSE rows

\* Promise.resolve({rows, total})
Resolved(rows, total) == [status |-> "resolved", rows |-> rows, total |-> total]
PageOf(rows, st) == Resolved(PageSlice(rows, st), Len(rows))

\* a load that counts the rows of the page instead of the rows before paging
LoadCountsPage(orig, dt, st, o, eng) ==
    Resolved(PageSlice(GetFilteredRows(orig, dt, st, o, eng), st),
             Len(PageSlice(GetFilteredRows(orig, dt, st, o, eng), st)))

\* LocalDataSource.load(state, columns): the settled promise
LocalLoad(orig, dt, st, o, eng) == PageOf(GetFilteredRows(orig, dt, st, o, eng), st)

\* a load that cuts the page out of the backing array itself (splice for slice)
OriginalSpliced(orig, st) ==
    IF st.pagingEnabled
    THEN SubSeq(orig, 1, Min({(st.page - 1) * st.pageSize, Len(orig)}))
         \o SubSeq(orig, (st.page - 1) * st.pageSize + st.pageSize + 1, Len(orig))
    ELSE orig

\* load works on copies (filter, map, slice): the backing array is as it was
OriginalAfterLoad(orig, st) == orig

(***************************************************************************)
(* Inputs: the QueryStates handed to load.                                  *)
(***************************************************************************)
SortInputs == {
    <<>>,
    <<[key |-> "age", dir |-> "asc"]>>,
    <<[key |-> "age", dir |-> "desc"], [key |-> "name", dir |-> "asc"]>>,
    <<[key |-> "age", dir |-> "asc"], [key |-> "rank", dir |-> "asc"]>>,
    <<[key |-> "age", dir |-> "asc"], [key |-> "rank", dir |-> "desc"]>>,
    <<[key |-> "vip", dir |-> "asc"], [key |-> "__col_3", dir |-> "asc"]>> }

SearchInputs == { <<>>, <<" ">>, <<"A","N">> }

NoFilters == [k \in {} |-> Null]
FilterInputs == {
    NoFilters,
    [k \in {"vip"} |-> Bool(TRUE)],
    [k \in {"vip", "age"} |-> IF k = "vip" THEN Bool(FALSE) ELSE Str(<<"9">>)],
    [k \in {"kids"} |-> Str(<<"y">>)] }

PageSizes == {1, 2}
PagingInputs ==
    {[enabled |-> FALSE, page |-> 1, pageSize |-> 2]}
    \cup {[enabled |-> TRUE, page |-> p, pageSize |-> z] : p \in 1..MaxPage, z \in PageSizes}
QuerySortInputs == {
    <<>>,
    <<[key |-> "age", dir |-> "asc"], [key |-> "rank", dir |-> "desc"]>>,
    <<[key |-> "name", dir |-> "desc"]>> }

\* _normalizeDefaultSort(defaultSort, columns): nothing for a value that is not
\* an object or is an array; otherwise one order per key of the map whose
\* direction is truthy, 'desc' for the direction 'desc' and 'asc' for any other
NormalizeDefaultSort(defaultSort, columns) ==
    IF defaultSort.form # "map" THEN <<>>
    ELSE [i \in DOMAIN defaultSort.orders |->
             [key |-> defaultSort.orders[i].key,
              dir |-> IF defaultSort.orders[i].dir = "desc" THEN "desc" ELSE "asc"]]

\* this.state as the constructor leaves it
InitialState(o) ==
    [page |-> 1, pageSize |-> o.pageSize, pagingEnabled |-> o.paging,
     searchText |-> <<>>,
     sortOrders |-> NormalizeDefaultSort(o.defaultSort, Columns(o)),
     filters |-> NoFilters]

SortQueryInputs ==
    { [InitialState(BaseOptions) EXCEPT !.sortOrders = so] : so \in SortInputs }

(***************************************************************************)
(* The data source on its own: construction, setData, load.                 *)
(***************************************************************************)
NoCommit == [id |-> 0, seq |-> 0, yielded |-> FALSE, rows |-> <<>>, total |-> 0]
NoSettle == [id |-> 0, seq |-> 0, outcome |-> "none", promise |-> "none"]

IdleTable ==
    /\ drawSeq = 0
    /\ pending = {}
    /\ totalRows = 0
    /\ lastPageRows = <<>>
    /\ body = <<>>
    /\ loading = FALSE
    /\ loaded = FALSE
    /\ fetches = 0
    /\ errorsReported = 0
    /\ lastSettled = NoSettle
    /\ lastCommit = NoCommit

\* the selection and expansion state the constructor sets up
NoKeys == [k \in {} |-> FALSE]
IdleSelection ==
    /\ selectedRowKeys = {}
    /\ pageParentRowKeys = <<>>
    /\ pageGroupRowKeyMap = NoKeys
    /\ boxes = NoKeys
    /\ headerSelect = [checked |-> FALSE, indeterminate |-> FALSE]
    /\ expandedRowKeys = {}
    /\ childTrs = NoKeys
    /\ childFetches = 0
    /\ exports = <<>>
    /\ lastOp = "constructor"

\* new LocalDataSource(data, table)
InitSource(optionSet, dataSet) ==
    /\ engine \in Engines
    /\ opts \in optionSet
    /\ original \in dataSet
    /\ dtIndex = AttachOriginalIndex([r \in Pool |-> NoIndex], original)
    /\ qs = InitialState(opts)
    /\ results = <<>>
    /\ setDataCalls = 0
    /\ IdleTable
    /\ IdleSelection

\* LocalDataSource.setData(data)
SetData(data) ==
    /\ setDataCalls < MaxSetData
    /\ original' = data
    /\ dtIndex' = AttachOriginalIndex(dtIndex, data)
    /\ results' = <<>>
    /\ setDataCalls' = setDataCalls + 1
    /\ UNCHANGED <<engine, opts, qs>>
    /\ UNCHANGED drawVars
    /\ UNCHANGED tableVars
    /\ UNCHANGED lastOp

\* the results of the loads made with one QueryState and one backing array
Recorded(earlier, same, result) == IF same THEN Append(earlier, result) ELSE <<result>>

\* LocalDataSource.load(state, columns)
Load(st) ==
    /\ Len(results) < MaxLoads \/ st # qs
    /\ results' = Recorded(results, st = qs, LocalLoad(original, dtIndex, st, opts, engine))
    /\ qs' = st
    /\ original' = OriginalAfterLoad(original, st)
    /\ UNCHANGED <<engine, opts, dtIndex, setDataCalls>>
    /\ UNCHANGED drawVars
    /\ UNCHANGED tableVars
    /\ UNCHANGED lastOp

\* the table changes one part of its state per call (paging, search, sortBy, a
\* filter control) and then loads
LoadPage    == \E pg \in PagingInputs :
                  Load([qs EXCEPT !.page = pg.page, !.pageSize = pg.pageSize,
                                  !.pagingEnabled = pg.enabled])
LoadSearch  == \E t \in SearchInputs : Load([qs EXCEPT !.searchText = t])
LoadSortBy  == \E so \in QuerySortInputs : Load([qs EXCEPT !.sortOrders = so])
LoadFilter  == \E f \in FilterInputs : Load([qs EXCEPT !.filters = f])
LoadSorted  == \E st \in SortQueryInputs : Load(st)
ReplaceData == \E data \in DataInputs : SetData(data)

LocalDataInputs == {d \in DataInputs : d \in {<<>>, <<2, 4>>, <<2, 3, 4, 1>>}}
InitLocal == InitSource(TableOptions, LocalDataInputs)
NextLocal == LoadPage \/ LoadSearch \/ LoadSortBy \/ LoadFilter
SpecLocal == InitLocal /\ [][NextLocal]_vars

InitSort == InitSource({BaseOptions}, {d \in DataInputs : Len(d) <= MaxFirstRows})
NextSort == LoadSorted \/ ReplaceData
SpecSort == InitSort /\ [][NextSort]_vars

(***************************************************************************)
(* AjaxDataSource and AjaxLoadOnceDataSource: what a response is made of.   *)
(***************************************************************************)
\* the server holds the rows 1..MaxServerRows and answers with some of them, in
\* their order
ServerRowLists == {d \in DataInputs : /\ Len(d) <= MaxServerRows
                                      /\ \A i \in DOMAIN d : d[i] <= MaxServerRows
                                      /\ \A i \in 1..(Len(d) - 1) : d[i] < d[i + 1]}

\* the totals a response to a page request may carry: the rows of the page, or more
TotalsFor(list) == {Len(list), Len(list) + MaxServerRows}

\* a JSON value: a bare array, or an object {data, total}, {rows, total} or
\* {items, total} (total may be missing)
Json(shape, list, hasTotal, total) ==
    [shape |-> shape, list |-> list, hasTotal |-> hasTotal, total |-> total]

\* what the server (or the caller-supplied ajax.fetch) hands back
Payloads(o) ==
    IF o.transform
    THEN UNION {{Json("items", l, TRUE, t) : t \in TotalsFor(l)} : l \in ServerRowLists}
    ELSE IF o.fetchFn
    THEN UNION {{Json("rows", l, TRUE, t) : t \in TotalsFor(l)} : l \in ServerRowLists}
    ELSE {Json("array", l, FALSE, 0) : l \in ServerRowLists}
         \cup UNION {{Json("data", l, h, t) : h \in BOOLEAN, t \in TotalsFor(l)} :
                        l \in ServerRowLists}

\* ajax.transform as the documentation gives it: {rows: json.items, total: json.total}
Transform(json) ==
    Json("rows", IF json.shape = "items" THEN json.list ELSE <<>>,
         json.hasTotal, json.total)

\* the object the caller-supplied fetch or transform yielded
Yielded(json, o) == IF o.transform THEN Transform(json) ELSE json

\* _handleFetchResponse of AjaxDataSource.load
HandleFetchResponse(json, o) ==
    LET j     == IF o.transform THEN Transform(json) ELSE json
        rows  == IF j.shape = "array" THEN j.list
                 ELSE IF j.shape = "data" THEN j.list
                 ELSE <<>>
        total == IF j.shape # "array" /\ j.hasTotal THEN j.total ELSE Len(rows)
    IN  [status |-> "resolved", rows |-> rows, total |-> total]

\* the rows AjaxLoadOnceDataSource.load hands to setData
LoadOnceRows(json, o) ==
    IF o.transform THEN Transform(json).list
    ELSE IF json.shape \in {"array", "data"} THEN json.list
    ELSE <<>>

(***************************************************************************)
(* Row keys, groups, and what _renderBody leaves in the table.              *)
(***************************************************************************)
\* _getRowKey (childRows.rowId is not configured)
GetRowKey(r, dt, rowIndex, prefix) ==
    IF ~IsNull(RowField(r, "id")) THEN ToStr(RowField(r, "id"))
    ELSE IF dt[r] # NoIndex THEN NumToStr(dt[r])
    ELSE prefix \o <<"-">> \o NumToStr(rowIndex)

\* _hasGrouping, and grouping.keys of the table
HasGrouping(o) == o.grouping
GroupingKeys == opts.groupingKeys

\* JSON.stringify of an array of cell values: null for null and undefined, the
\* digits of a number, a string between double quotes (the strings of the rows
\* hold no quote, backslash or control character to escape), true or false
JsonValue(v) ==
    CASE v.k = "null" -> <<"n","u","l","l">>
      [] v.k = "str"  -> <<"\"">> \o v.s \o <<"\"">>
      [] OTHER        -> ToStr(v)
RECURSIVE JsonItems(_)
JsonItems(parts) ==
    IF parts = <<>> THEN <<>>
    ELSE IF Len(parts) = 1 THEN JsonValue(parts[1])
    ELSE JsonValue(parts[1]) \o <<",">> \o JsonItems(Tail(parts))
JsonStringify(parts) == <<"[">> \o JsonItems(parts) \o <<"]">>

\* the key of a row's group: JSON.stringify of the tuple of its key-field values
GroupKey(r) == JsonStringify([i \in DOMAIN GroupingKeys |-> RowField(r, GroupingKeys[i])])

\* a grouping that starts a group wherever the key differs from the row before
BuildGroupsOfRuns(rows) ==
    LET firsts == SelectSeq([i \in DOMAIN rows |-> i],
                            LAMBDA i : i = 1 \/ GroupKey(rows[i - 1]) # GroupKey(rows[i]))
    IN  [n \in DOMAIN firsts |->
            [key  |-> GroupKey(rows[firsts[n]]),
             rows |-> SubSeq(rows, firsts[n],
                             IF n < Len(firsts) THEN firsts[n + 1] - 1 ELSE Len(rows))]]

\* _buildGroups: the groups in first-seen order, each with its rows in page order
BuildGroups(rows) ==
    LET firsts == SelectSeq([i \in DOMAIN rows |-> i],
                            LAMBDA i : \A j \in 1..(i - 1) :
                                          GroupKey(rows[j]) # GroupKey(rows[i]))
    IN  [n \in DOMAIN firsts |->
            [key  |-> GroupKey(rows[firsts[n]]),
             rows |-> SelectSeq(rows, LAMBDA r : GroupKey(r) = GroupKey(rows[firsts[n]]))]]

RECURSIVE Flatten(_)
Flatten(groups) ==
    IF groups = <<>> THEN <<>> ELSE Head(groups).rows \o Flatten(Tail(groups))

\* the parent rows in the order _renderGroupedBodyFragment or
\* _renderFlatBodyFragment appends them
RenderedRows(rows, o) == IF HasGrouping(o) THEN Flatten(BuildGroups(rows)) ELSE rows

\* the row keys in that order (pageRowCounter / rowIndexOnPage is the position)
KeysOf(rendered, dt) ==
    [i \in DOMAIN rendered |->
        GetRowKey(rendered[i], dt, i - 1, <<"p","a","r","e","n","t">>)]

\* _pageGroupRowKeyMap after a grouped render
GroupRowKeyMap(rendered, keys) ==
    [g \in {GroupKey(rendered[i]) : i \in DOMAIN rendered} |->
        SelectSeq(keys, LAMBDA k : \E i \in DOMAIN rendered :
                                      keys[i] = k /\ GroupKey(rendered[i]) = g)]

\* _renderSelectCell: in group mode only the first row of a group has a checkbox
GroupMode(o) == IF HasGrouping(o) /\ o.groupMode = "group" THEN "group" ELSE "row"
SelectCellKeys(rendered, keys, o) ==
    IF o.select
    THEN {keys[i] : i \in {j \in DOMAIN rendered :
                              \/ GroupMode(o) = "row"
                              \/ \A h \in 1..(j - 1) :
                                    GroupKey(rendered[h]) # GroupKey(rendered[j])}}
    ELSE {}

\* a checkbox that is never rendered checked
RendersUnchecked(k, selected) == FALSE

\* input.checked = this._selectedRowKeys.has(rowKey)
IsSelected(k, selected) == k \in selected

\* _updateHeaderSelectCheckboxState
HeaderState(pageKeys, selected) ==
    LET total == Len(pageKeys)
        count == Cardinality({i \in DOMAIN pageKeys : pageKeys[i] \in selected})
    IN  [checked |-> total # 0 /\ count = total,
         indeterminate |-> total # 0 /\ count # 0 /\ count # total]

\* the child rows a render appends: those of the expanded parents that have children
ChildRowsOf(rendered, keys, expanded, o) ==
    [k \in {keys[i] : i \in {j \in DOMAIN rendered :
                                /\ GetChildrenForRow(rendered[j], o) # <<>>
                                /\ keys[j] \in expanded}} |->
        Len(GetChildrenForRow(
                rendered[CHOOSE i \in DOMAIN rendered : keys[i] = k], o))]

\* _renderBody(rows) followed by _postBodyRender(rows); the per-page caches are
\* reset only when the page has rows
RenderKeyed(rendered, keys) ==
    /\ body' = rendered
    /\ pageParentRowKeys' = IF keys # <<>> THEN keys ELSE pageParentRowKeys
    /\ pageGroupRowKeyMap' = IF keys # <<>> /\ HasGrouping(opts)
                             THEN GroupRowKeyMap(rendered, keys)
                             ELSE pageGroupRowKeyMap
    /\ childTrs' = ChildRowsOf(rendered, keys, expandedRowKeys, opts)
    /\ boxes' = [k \in SelectCellKeys(rendered, keys, opts) |->
                    IsSelected(k, selectedRowKeys)]
    /\ headerSelect' = IF opts.select
                       THEN HeaderState(pageParentRowKeys', selectedRowKeys)
                       ELSE headerSelect
    /\ UNCHANGED <<selectedRowKeys, expandedRowKeys, childFetches, exports>>
RenderRows(rendered, dt) == RenderKeyed(rendered, KeysOf(rendered, dt))
RenderBody(rows, dt) == RenderRows(RenderedRows(rows, opts), dt)

(***************************************************************************)
(* TinyDataTable.draw                                                       *)
(***************************************************************************)
IsAjax(o) == o.source = "ajax"

\* an onLoad without the stale-result test
NeverStale(isAjax, drawId, seq) == FALSE

\* onLoad: "if (self._isAjax && drawId !== self._internals.drawSeq) return"
IsStale(isAjax, drawId, seq) == isAjax /\ drawId # seq

\* onLoad(result) of draw number id, run when the draw counter is seq; y is what
\* the fetch or transform yielded, dt the __dt_index of the rows
OnLoad(id, seq, result, y, dt) ==
    IF IsStale(IsAjax(opts), id, seq)
    THEN /\ UNCHANGED <<totalRows, lastPageRows, body, lastCommit>>
         /\ UNCHANGED tableVars
    ELSE /\ totalRows' = result.total
         /\ lastPageRows' = result.rows
         /\ RenderBody(result.rows, dt)
         /\ lastCommit' = [id |-> id, seq |-> seq, yielded |-> y.shape = "rows",
                           rows |-> y.list, total |-> y.total]

NoJson == Json("none", <<>>, FALSE, 0)

\* draw() of a table whose state is st and whose local rows are orig, with the
\* load-once source's _loaded flag and fetch count as given
DrawFrom(op, orig, dt, st, isLoaded, fetchCount) ==
    /\ drawSeq < MaxDraws
    /\ drawSeq' = drawSeq + 1
    /\ lastOp' = op
    /\ qs' = st
    /\ original' = orig
    /\ dtIndex' = dt
    /\ IF IsAjax(opts)
       THEN /\ pending' = {[p EXCEPT !.aborted = TRUE] : p \in pending}
                          \cup {[id |-> drawSeq + 1, aborted |-> FALSE, state |-> st]}
            /\ loading' = TRUE
            /\ fetches' = fetchCount + 1
            /\ UNCHANGED <<totalRows, lastPageRows, body, lastCommit, lastSettled>>
            /\ UNCHANGED tableVars
       ELSE IF opts.source = "loadOnce" /\ ~isLoaded
       THEN /\ pending' = pending \cup {[id |-> drawSeq + 1, aborted |-> FALSE,
                                         state |-> st]}
            /\ fetches' = fetchCount + 1
            /\ UNCHANGED <<totalRows, lastPageRows, body, loading, lastCommit, lastSettled>>
            /\ UNCHANGED tableVars
       ELSE /\ OnLoad(drawSeq + 1, drawSeq + 1,
                      LocalLoad(orig, dt, st, opts, engine), NoJson, dt)
            /\ lastSettled' = [id |-> drawSeq + 1, seq |-> drawSeq + 1,
                               outcome |-> "response", promise |-> "resolved"]
            /\ fetches' = fetchCount
            /\ UNCHANGED <<pending, loading>>
    /\ UNCHANGED <<errorsReported>>
    /\ UNCHANGED <<engine, opts, results, setDataCalls>>

DrawWith(op, isLoaded, fetchCount) ==
    DrawFrom(op, original, dtIndex, qs, isLoaded, fetchCount)

Draw ==
    /\ DrawWith("draw", loaded, fetches)
    /\ UNCHANGED loaded

\* refresh(): dataSource.refresh() where the source has one, then draw()
Refresh ==
    LET once == opts.source = "loadOnce"
    IN  /\ DrawWith("refresh", IF once THEN FALSE ELSE loaded,
                     IF once THEN 0 ELSE fetches)
        /\ loaded' = IF once THEN FALSE ELSE loaded

\* the request of a per-page remote draw resolves
AjaxResponse ==
    \E d \in pending : \E json \in Payloads(opts) :
        /\ IsAjax(opts)
        /\ pending' = pending \ {d}
        /\ OnLoad(d.id, drawSeq, HandleFetchResponse(json, opts), Yielded(json, opts),
                  dtIndex)
        /\ loading' = FALSE
        /\ lastSettled' = [id |-> d.id, seq |-> drawSeq, outcome |-> "response",
                           promise |-> "resolved"]
        /\ UNCHANGED <<drawSeq, loaded, fetches, errorsReported, lastOp>>
        /\ UNCHANGED localVars

\* what the first fetch of a load-once source leaves once it has resolved
LoadedOnce(id, rows, dt) ==
    /\ original' = rows
    /\ dtIndex' = dt
    /\ OnLoad(id, drawSeq, LocalLoad(rows, dt, qs, opts, engine), NoJson, dt)

\* the first fetch of a load-once source resolves
LoadOnceResponse ==
    \E d \in pending : \E json \in Payloads(opts) :
        /\ opts.source = "loadOnce"
        /\ pending' = pending \ {d}
        /\ LoadedOnce(d.id, LoadOnceRows(json, opts),
                      AttachOriginalIndex(dtIndex, LoadOnceRows(json, opts)))
        /\ loaded' = TRUE
        /\ lastSettled' = [id |-> d.id, seq |-> drawSeq, outcome |-> "response",
                           promise |-> "resolved"]
        /\ UNCHANGED <<drawSeq, loading, fetches, errorsReported, lastOp>>
        /\ UNCHANGED <<engine, opts, qs, results, setDataCalls>>

\* the load of a draw rejects: an AbortError for an aborted request, or a failure.
\* The catch handler of draw() swallows an AbortError; any other error is handed
\* to options.onError (or console.error), emitted as an error event, and thrown
\* again
LoadFails ==
    \E d \in pending : \E kind \in {"abort", "error"} :
        /\ kind = "abort" => d.aborted
        /\ pending' = pending \ {d}
        /\ errorsReported' = IF kind = "abort" THEN errorsReported ELSE errorsReported + 1
        /\ loading' = IF IsAjax(opts) THEN FALSE ELSE loading
        /\ lastSettled' = [id |-> d.id, seq |-> drawSeq, outcome |-> kind,
                           promise |-> IF kind = "abort" THEN "resolved" ELSE "rejected"]
        /\ UNCHANGED <<drawSeq, totalRows, lastPageRows, body, loaded, fetches, lastCommit>>
        /\ UNCHANGED localVars
        /\ UNCHANGED tableVars
        /\ UNCHANGED lastOp

\* new TinyDataTable(el, options) with a remote source: the constructor draws
InitRemote(optionSet) ==
    /\ engine = "merge"
    /\ opts \in optionSet
    /\ original = <<>>
    /\ dtIndex = [r \in Pool |-> NoIndex]
    /\ qs = InitialState(opts)
    /\ results = <<>>
    /\ setDataCalls = 0
    /\ drawSeq = 1
    /\ pending = {[id |-> 1, aborted |-> FALSE, state |-> InitialState(opts)]}
    /\ totalRows = 0
    /\ lastPageRows = <<>>
    /\ body = <<>>
    /\ loading = IsAjax(opts)
    /\ loaded = FALSE
    /\ fetches = 1
    /\ errorsReported = 0
    /\ lastSettled = NoSettle
    /\ lastCommit = NoCommit
    /\ IdleSelection

AjaxOptions == [BaseOptions EXCEPT !.source = "ajax", !.paging = TRUE]
AjaxOptionSet == { AjaxOptions,
                   [AjaxOptions EXCEPT !.fetchFn = TRUE],
                   [AjaxOptions EXCEPT !.transform = TRUE] }
LoadOnceOptions == [BaseOptions EXCEPT !.source = "loadOnce", !.paging = TRUE]

InitAjax == InitRemote(AjaxOptionSet)
NextAjax == Draw \/ AjaxResponse \/ LoadFails
SpecAjax == InitAjax /\ [][NextAjax]_vars

InitLoadOnce == InitRemote({LoadOnceOptions})
NextLoadOnce == Draw \/ Refresh \/ LoadOnceResponse \/ LoadFails
SpecLoadOnce == InitLoadOnce /\ [][NextLoadOnce]_vars


(***************************************************************************)
(* TinyDataTable: the operations that change this.state and draw.           *)
(***************************************************************************)
Ceil(a, b) == (a + b - 1) \div b

\* the draw() an operation ends with, this.state being st by then
Redraw(op, st) ==
    /\ DrawFrom(op, original, dtIndex, st, loaded, fetches)
    /\ UNCHANGED loaded

\* goToPage(page): newPage = min(max(1, page), max(1, ceil(totalRows / pageSize)))
ClampPage(p, total, size) == Min({Max({1, p}), Max({1, Ceil(total, size)})})
GoToPage ==
    \E p \in 1..MaxPage :
        /\ qs.pagingEnabled
        /\ ClampPage(p, totalRows, qs.pageSize) # qs.page
        /\ Redraw("goToPage", [qs EXCEPT !.page = ClampPage(p, totalRows, qs.pageSize)])

\* search(text)
Search ==
    \E t \in { <<>>, <<"A","N">> } :
        Redraw("search", [qs EXCEPT !.searchText = t, !.page = 1])

\* a header click that swaps asc and desc and never clears the order
NextOrdersToggled(orders, key, append) ==
    IF orders = <<[key |-> key, dir |-> "asc"]>>
    THEN <<[key |-> key, dir |-> "desc"]>> ELSE <<[key |-> key, dir |-> "asc"]>>

\* sortBy(key, {append}): the cycle none -> asc -> desc -> none
NextOrders(orders, key, append) ==
    LET index   == IF \E j \in DOMAIN orders : orders[j].key = key
                   THEN Min({j \in DOMAIN orders : orders[j].key = key})
                   ELSE 0
        nextDir == IF index = 0 THEN "asc"
                   ELSE IF orders[index].dir = "asc" THEN "desc" ELSE "none"
        entry   == [key |-> key, dir |-> nextDir]
    IN  IF ~append
        THEN IF nextDir # "none" THEN <<entry>> ELSE <<>>
        ELSE IF index = 0 THEN Append(orders, entry)
        ELSE IF nextDir # "none" THEN [orders EXCEPT ![index] = entry]
        ELSE SubSeq(orders, 1, index - 1) \o SubSeq(orders, index + 1, Len(orders))
SortByKey(key, append) ==
    /\ SortableCol(key, opts).key # ""
    /\ Redraw("sortBy", [qs EXCEPT !.sortOrders = NextOrders(qs.sortOrders, key, append),
                                   !.page = 1])
SortBy == \E key \in {"age", "vip"} : \E append \in BOOLEAN : SortByKey(key, append)

\* the change handler of a filter control: a switch stores a boolean, a select
\* stores its value, or null for the empty value
WithFilter(filters, key, v) ==
    [k \in DOMAIN filters \cup {key} |-> IF k = key THEN v ELSE filters[k]]
FilterChange ==
    \E f \in { <<"vip", Bool(TRUE)>>, <<"kids", Str(<<"y">>)>>, <<"kids", Null>> } :
        /\ opts.filters
        /\ Redraw("filter", [qs EXCEPT !.filters = WithFilter(qs.filters, f[1], f[2]),
                                       !.page = 1])

\* the page-size control of the pager
PageSizeChange ==
    \E z \in PageSizes :
        /\ qs.pagingEnabled
        /\ z # qs.pageSize
        /\ Redraw("length", [qs EXCEPT !.pageSize = z, !.page = 1])

\* setData(data) of the table: only with a LocalDataSource (or its load-once
\* subclass)
TableSetData ==
    \E data \in { <<>>, <<1, 2, 3, 4>> } :
        /\ ~IsAjax(opts)
        /\ DrawFrom("setData", data, AttachOriginalIndex(dtIndex, data),
                    [qs EXCEPT !.page = 1], loaded, fetches)
        /\ UNCHANGED loaded

(***************************************************************************)
(* TinyDataTable: selection.                                                *)
(***************************************************************************)
Range(f) == {f[i] : i \in DOMAIN f}

\* the end of every selection operation: _syncSelectionDomAndHeader, the ledger
\* being `selected` by then
SyncSelection(op, selected) ==
    /\ selectedRowKeys' = selected
    /\ boxes' = IF opts.select THEN [k \in DOMAIN boxes |-> IsSelected(k, selected)]
                ELSE boxes
    /\ headerSelect' = IF opts.select THEN HeaderState(pageParentRowKeys, selected)
                       ELSE headerSelect
    /\ lastOp' = op
    /\ UNCHANGED <<pageParentRowKeys, pageGroupRowKeyMap, expandedRowKeys, childTrs,
                   childFetches, exports>>
    /\ UNCHANGED localVars
    /\ UNCHANGED drawVars

\* selectRow(rowKey), unselectRow(rowKey): the key is String(rowKey)
SelectRow ==
    \E r \in Pool :
        SyncSelection("selectRow", selectedRowKeys \cup {ToStr(Num(r))})
UnselectRow ==
    \E r \in Pool :
        SyncSelection("unselectRow", selectedRowKeys \ {ToStr(Num(r))})

\* selectAllOnPage(), unselectAllOnPage(), clearSelection()
SelectAllOnPage ==
    SyncSelection("selectAllOnPage", selectedRowKeys \cup Range(pageParentRowKeys))
UnselectAllOnPage ==
    SyncSelection("unselectAllOnPage", selectedRowKeys \ Range(pageParentRowKeys))
ClearSelection == SyncSelection("clearSelection", {})

\* _handleHeaderSelectAll(checked): the user toggles the header checkbox
HeaderSelectAll ==
    \E checked \in BOOLEAN :
        /\ opts.select
        /\ checked # headerSelect.checked
        /\ SyncSelection("headerSelectAll",
                         IF checked THEN selectedRowKeys \cup Range(pageParentRowKeys)
                         ELSE selectedRowKeys \ Range(pageParentRowKeys))

\* tr.dataset.groupKey of the rendered parent row whose key is k; the empty
\* tuple when the render was not grouped
GroupKeyOfTr(k) ==
    IF HasGrouping(opts)
    THEN GroupKey(body[CHOOSE i \in DOMAIN body : KeysOf(body, dtIndex)[i] = k])
    ELSE <<>>

\* a checkbox handler that acts on the clicked row alone
AffectsRowOnly(k) == {k}

\* the keys _handleRowCheckboxChange adds or deletes
AffectedKeys(k) ==
    IF GroupMode(opts) = "group" /\ GroupKeyOfTr(k) # <<>>
                                 /\ GroupKeyOfTr(k) \in DOMAIN pageGroupRowKeyMap
    THEN Range(pageGroupRowKeyMap[GroupKeyOfTr(k)])
    ELSE {k}

\* _handleRowCheckboxChange(rowKey, checked, tr): the user toggles the rendered
\* checkbox of the row whose key is k
ToggleRow(k) ==
    SyncSelection("rowCheckbox",
                  IF ~boxes[k] THEN selectedRowKeys \cup AffectedKeys(k)
                  ELSE selectedRowKeys \ AffectedKeys(k))
RowCheckboxChange == \E k \in DOMAIN boxes : ToggleRow(k)

\* new TinyDataTable(el, {data, ...}): the table once the constructor's draw has
\* rendered
FirstRendered(rendered, keys) ==
    /\ body = rendered
    /\ pageParentRowKeys = keys
    /\ pageGroupRowKeyMap = IF keys # <<>> /\ HasGrouping(opts)
                            THEN GroupRowKeyMap(rendered, keys) ELSE NoKeys
    /\ childTrs = NoKeys
    /\ boxes = [k \in SelectCellKeys(rendered, keys, opts) |-> FALSE]
    /\ headerSelect = [checked |-> FALSE, indeterminate |-> FALSE]
FirstDrawn(result, rendered) ==
    /\ totalRows = result.total
    /\ lastPageRows = result.rows
    /\ FirstRendered(rendered, KeysOf(rendered, dtIndex))
FirstLoaded(result) == FirstDrawn(result, RenderedRows(result.rows, opts))
InitTable(optionSet, dataSet) ==
    /\ engine = "merge"
    /\ opts \in optionSet
    /\ original \in dataSet
    /\ dtIndex = AttachOriginalIndex([r \in Pool |-> NoIndex], original)
    /\ qs = InitialState(opts)
    /\ results = <<>>
    /\ setDataCalls = 0
    /\ drawSeq = 1
    /\ pending = {}
    /\ loading = FALSE
    /\ loaded = FALSE
    /\ fetches = 0
    /\ errorsReported = 0
    /\ lastSettled = [id |-> 1, seq |-> 1, outcome |-> "response", promise |-> "resolved"]
    /\ lastCommit = [NoCommit EXCEPT !.id = 1, !.seq = 1]
    /\ FirstLoaded(LocalLoad(original, dtIndex, qs, opts, engine))
    /\ selectedRowKeys = {}
    /\ expandedRowKeys = {}
    /\ childFetches = 0
    /\ exports = <<>>
    /\ lastOp = "constructor"

\* a local table with paging and row selection, with and without group selection
LocalPaged == [BaseOptions EXCEPT !.paging = TRUE]
SelectOptionSet == { LocalPaged,
                     [LocalPaged EXCEPT !.grouping = TRUE],
                     [LocalPaged EXCEPT !.grouping = TRUE, !.groupMode = "group"] }
InitSelect == InitTable(SelectOptionSet, { <<1, 3, 2, 4>> })
NextSelect ==
    \/ GoToPage \/ Search \/ SortBy \/ FilterChange \/ PageSizeChange
    \/ TableSetData \/ Refresh \/ Draw
    \/ SelectRow \/ UnselectRow \/ SelectAllOnPage \/ UnselectAllOnPage
    \/ ClearSelection \/ HeaderSelectAll \/ RowCheckboxChange
SpecSelect == InitSelect /\ [][NextSelect]_vars

(***************************************************************************)
(* TinyDataTable: child rows.                                               *)
(***************************************************************************)
\* this.childRows as the constructor builds it from options.childRows: enabled,
\* dataKey, startExpanded, rowId, toggleOnRowClick, showToggleIcon, columns and
\* getColumns are copied, lazyLoad is not, so this.childRows.lazyLoad is undefined
ChildRows(o) == [enabled |-> o.childRows, lazyLoad |-> FALSE]

\* the children of the rendered parent row whose key is k (row[dataKey]); none
\* when no rendered row has the key
ChildrenOfKey(k) ==
    IF k \in Range(KeysOf(body, dtIndex))
    THEN GetChildrenForRow(body[CHOOSE i \in DOMAIN body : KeysOf(body, dtIndex)[i] = k],
                           opts)
    ELSE <<>>

\* _insertChildRowsForParent(rowKey): n more child rows after the parent row
InsertChildRows(trs, k, n) ==
    IF n = 0 THEN trs
    ELSE [x \in DOMAIN trs \cup {k} |->
             (IF x \in DOMAIN trs THEN trs[x] ELSE 0) + (IF x = k THEN n ELSE 0)]

\* a removal that takes every child row out of tbody
RemovesAllChildRows(trs, k) == NoKeys

\* _removeChildRowsForParent(rowKey)
RemoveChildRows(trs, k) == [x \in DOMAIN trs \ {k} |-> trs[x]]

\* expandChildRows(rowKey).  With lazyLoad and an empty child slot the children
\* are requested by _loadLazyChildren (when the table is per-page remote) and
\* inserted when the request resolves; otherwise they are inserted at once
ExpandChildRows ==
    \E r \in Pool :
        /\ ChildRows(opts).enabled
        /\ IF ToStr(Num(r)) \in DOMAIN childTrs
           THEN childTrs[ToStr(Num(r))] < MaxChildTrs ELSE TRUE
        /\ expandedRowKeys' = expandedRowKeys \cup {ToStr(Num(r))}
        /\ IF ChildRows(opts).lazyLoad /\ ChildrenOfKey(ToStr(Num(r))) = <<>>
           THEN /\ childFetches' = IF IsAjax(opts) /\ ToStr(Num(r)) \in Range(KeysOf(body, dtIndex))
                                   THEN childFetches + 1 ELSE childFetches
                /\ UNCHANGED childTrs
           ELSE /\ childTrs' = InsertChildRows(childTrs, ToStr(Num(r)),
                                               Len(ChildrenOfKey(ToStr(Num(r)))))
                /\ UNCHANGED childFetches
        /\ lastOp' = "expandChildRows"
        /\ UNCHANGED <<selectedRowKeys, pageParentRowKeys, pageGroupRowKeyMap, boxes,
                       headerSelect, exports>>
        /\ UNCHANGED localVars
        /\ UNCHANGED drawVars

\* collapseChildRows(rowKey)
CollapseChildRows ==
    \E k \in expandedRowKeys :
        /\ ChildRows(opts).enabled
        /\ expandedRowKeys' = expandedRowKeys \ {k}
        /\ childTrs' = RemoveChildRows(childTrs, k)
        /\ lastOp' = "collapseChildRows"
        /\ UNCHANGED <<selectedRowKeys, pageParentRowKeys, pageGroupRowKeyMap, boxes,
                       headerSelect, childFetches, exports>>
        /\ UNCHANGED localVars
        /\ UNCHANGED drawVars

\* collapseAllChildRows()
CollapseAllChildRows ==
    /\ ChildRows(opts).enabled
    /\ expandedRowKeys # {}
    /\ expandedRowKeys' = {}
    /\ childTrs' = NoKeys
    /\ lastOp' = "collapseAllChildRows"
    /\ UNCHANGED <<selectedRowKeys, pageParentRowKeys, pageGroupRowKeyMap, boxes,
                   headerSelect, childFetches, exports>>
    /\ UNCHANGED localVars
    /\ UNCHANGED drawVars

\* local tables, one rendering all its rows and one paged, whose rows are
\* expanded and collapsed between draws
InitChildren == InitTable({BaseOptions, LocalPaged}, { <<1, 2, 3, 4>> })
NextChildren ==
    \/ ExpandChildRows \/ CollapseChildRows \/ CollapseAllChildRows
    \/ Draw \/ GoToPage \/ Search
SpecChildren == InitChildren /\ [][NextChildren]_vars

\* a per-page remote table configured with childRows.lazyLoad
LazyOptions == [AjaxOptions EXCEPT !.lazyLoad = TRUE]
InitLazy == InitRemote({LazyOptions})
NextLazy ==
    \/ ExpandChildRows \/ CollapseChildRows \/ CollapseAllChildRows
    \/ Draw \/ AjaxResponse
SpecLazy == InitLazy /\ [][NextLazy]_vars

(***************************************************************************)
(* Caller-supplied functions that run inside load, before it has a promise  *)
(* to return.                                                               *)
(***************************************************************************)
\* getFilteredRows calls def.predicate(row, value, ctx) from the callback of
\* rows.filter: for a row that passed the filters of the other keys, when the
\* filter of a key with a predicate holds a value
PredicateCalled(orig, st, o) ==
    /\ o.filters
    /\ HasActiveFilters(st.filters)
    /\ \E i \in DOMAIN orig : \E key \in DOMAIN st.filters :
          /\ FilterDef(key).predicate # "none"
          /\ ~IsNull(st.filters[key]) /\ st.filters[key] # Str(<<>>)
          /\ \A other \in DOMAIN st.filters \ {key} :
                PassesFilter(orig[i], FilterDef(other), st.filters[other],
                             RowField(orig[i], other))

\* the functions of the options that load calls in its own frame: ajax.fetch by
\* AjaxDataSource.load and by the first AjaxLoadOnceDataSource.load, inside the
\* argument of Promise.resolve; the filter predicates by LocalDataSource.load
\* (and by a load-once source that has its rows), before Promise.resolve.
\* ajax.transform runs in a then callback and is not among them
SyncCalls(orig, st, o, isLoaded) ==
    IF IsAjax(o) \/ (o.source = "loadOnce" /\ ~isLoaded)
    THEN IF o.fetchFn THEN {"fetch"} ELSE {}
    ELSE IF PredicateCalled(orig, st, o) THEN {"predicate"} ELSE {}

\* draw() when a function that load calls in its own frame throws: drawSeq is
\* incremented, the previous request of a per-page remote table aborted and the
\* loading class added; the exception leaves load and draw(), so that no promise
\* is returned, the catch and finally handlers are never attached, and nothing
\* is rendered
DrawThrows ==
    \E f \in SyncCalls(original, qs, opts, loaded) :
        /\ drawSeq < MaxDraws
        /\ drawSeq' = drawSeq + 1
        /\ lastOp' = "draw"
        /\ pending' = IF IsAjax(opts)
                      THEN {[p EXCEPT !.aborted = TRUE] : p \in pending} ELSE pending
        /\ loading' = IF IsAjax(opts) THEN TRUE ELSE loading
        /\ lastSettled' = [id |-> drawSeq + 1, seq |-> drawSeq + 1,
                           outcome |-> "threw", promise |-> "none"]
        /\ UNCHANGED <<totalRows, lastPageRows, body, loaded, fetches, errorsReported,
                       lastCommit>>
        /\ UNCHANGED localVars
        /\ UNCHANGED tableVars

\* tables of the three sources, their filter controls in use, whose loads may
\* fail
FaultOptionSet == AjaxOptionSet \cup {LoadOnceOptions}
InitFaults == InitRemote(FaultOptionSet) \/ InitTable({LocalPaged}, { <<1, 2, 3, 4>> })
NextFaults ==
    \/ Draw \/ DrawThrows \/ FilterChange
    \/ AjaxResponse \/ LoadOnceResponse \/ LoadFails
SpecFaults == InitFaults /\ [][NextFaults]_vars

(***************************************************************************)
(* getFullData: the export read path.                                       *)
(***************************************************************************)
\* getFullData(): saves state.pagingEnabled, sets it to false and calls
\* dataSource.load(this.state, this.columns); the saved value is put back by the
\* finally callback of the promise.  A per-page remote source sends a request
GetFullData ==
    /\ Len(exports) < MaxExports
    /\ fetches < MaxDraws + MaxExports
    /\ opts.source # "loadOnce"
    /\ exports' = Append(exports, qs.pagingEnabled)
    /\ qs' = [qs EXCEPT !.pagingEnabled = FALSE]
    /\ fetches' = IF IsAjax(opts) THEN fetches + 1 ELSE fetches
    /\ lastOp' = "getFullData"
    /\ UNCHANGED <<engine, opts, original, dtIndex, results, setDataCalls>>
    /\ UNCHANGED <<drawSeq, pending, totalRows, lastPageRows, body, loading, loaded,
                   errorsReported, lastSettled, lastCommit>>
    /\ UNCHANGED <<selectedRowKeys, pageParentRowKeys, pageGroupRowKeyMap, boxes,
                   headerSelect, expandedRowKeys, childTrs, childFetches>>

\* the promise of a getFullData call settles and its finally callback runs: the
\* promises of a local source settle in the order of the calls, the requests of
\* a remote source in any order
FullDataSettles ==
    \E i \in DOMAIN exports :
        /\ IsAjax(opts) \/ i = 1
        /\ qs' = [qs EXCEPT !.pagingEnabled = exports[i]]
        /\ exports' = SubSeq(exports, 1, i - 1) \o SubSeq(exports, i + 1, Len(exports))
        /\ UNCHANGED <<engine, opts, original, dtIndex, results, setDataCalls>>
        /\ UNCHANGED drawVars
        /\ UNCHANGED <<selectedRowKeys, pageParentRowKeys, pageGroupRowKeyMap, boxes,
                       headerSelect, expandedRowKeys, childTrs, childFetches, lastOp>>

\* a local and a per-page remote table, both paged, that are exported and drawn
InitExport == InitTable({LocalPaged}, { <<1, 2, 3, 4>> }) \/ InitRemote({AjaxOptions})
NextExport ==
    \/ GetFullData \/ FullDataSettles
    \/ Draw \/ GoToPage \/ AjaxResponse
SpecExport == InitExport /\ [][NextExport]_vars

(***************************************************************************)
(* The cells of the rendered rows.                                          *)
(***************************************************************************)
\* _internals.visibleColumnCount (_refreshColumnCaches)
VisibleColumnCount(o) ==
    Len(SelectSeq(Columns(o), LAMBDA c : c.visible)) + (IF o.select THEN 1 ELSE 0)

\* the rowSpan of the cell _renderSelectCell or _renderCell makes for a row that
\* is number idx (from 0) of a group of size rows, 0 when it makes none; merged
\* tells whether the cell is one that is merged over the group
SpanOf(merged, idx, size) ==
    IF merged /\ size > 1 THEN (IF idx > 0 THEN 0 ELSE size) ELSE 1

\* _renderDataRow for parent row i of the rendered rows: the rowSpan of each cell
\* of its tr, the select cell first
ParentCells(rendered, i, o) ==
    LET size == IF HasGrouping(o)
                THEN Cardinality({j \in DOMAIN rendered :
                                     GroupKey(rendered[j]) = GroupKey(rendered[i])})
                ELSE 1
        idx  == IF HasGrouping(o)
                THEN Cardinality({j \in 1..(i - 1) :
                                     GroupKey(rendered[j]) = GroupKey(rendered[i])})
                ELSE 0
        cols == SelectSeq(Columns(o), LAMBDA c : c.visible)
        sel  == IF o.select THEN <<SpanOf(GroupMode(o) = "group", idx, size)>> ELSE <<>>
        data == [c \in DOMAIN cols |->
                    SpanOf(HasGrouping(o) /\ cols[c].key \in o.mergeColumns, idx, size)]
    IN  SelectSeq(sel \o data, LAMBDA span : span > 0)

\* _renderDataRow for a child row of parent row r: an empty select cell, one cell
\* per visible child column, and empty cells up to visibleColumnCount
ChildCells(r, o) ==
    LET made == (IF o.select THEN 1 ELSE 0) + Len(GetChildColumnsForParent(r, o))
    IN  [c \in 1..Max({made, VisibleColumnCount(o)}) |-> 1]

\* the rows of tbody from parent row i on: each parent tr followed by the child
\* trs rendered under it
RECURSIVE BodyTrs(_, _, _, _, _)
BodyTrs(i, rendered, keys, trs, o) ==
    IF i > Len(rendered) THEN <<>>
    ELSE <<[child |-> FALSE, cells |-> ParentCells(rendered, i, o)]>>
         \o [n \in 1..(IF keys[i] \in DOMAIN trs THEN trs[keys[i]] ELSE 0) |->
                [child |-> TRUE, cells |-> ChildCells(rendered[i], o)]]
         \o BodyTrs(i + 1, rendered, keys, trs, o)

\* local tables with grouping, merged columns, group selection and child rows
GridOptionSet ==
    { BaseOptions,
      [BaseOptions EXCEPT !.grouping = TRUE, !.groupingKeys = <<"age">>,
                          !.mergeColumns = {"age"}],
      [BaseOptions EXCEPT !.grouping = TRUE, !.groupingKeys = <<"age">>,
                          !.groupMode = "group"],
      [BaseOptions EXCEPT !.grouping = TRUE, !.mergeColumns = {"rank"},
                          !.select = FALSE] }
InitGrid == InitTable(GridOptionSet, { <<2, 1, 3>>, <<1, 2, 3, 4>> })
NextGrid ==
    \/ ExpandChildRows \/ CollapseChildRows \/ CollapseAllChildRows
    \/ Draw \/ TableSetData
SpecGrid == InitGrid /\ [][NextGrid]_vars

\* local tables grouped by rank, one rendering all its rows and one paged,
\* whose data is replaced, sorted, filtered and searched
GroupedOptions == [BaseOptions EXCEPT !.grouping = TRUE]
InitGroups == InitTable({GroupedOptions, [LocalPaged EXCEPT !.grouping = TRUE]},
                        { <<1, 3, 2, 4>>, <<2, 4, 1>>, <<3, 2, 1>> })
NextGroups == TableSetData \/ SortBy \/ Search \/ FilterChange \/ GoToPage \/ Draw
SpecGroups == InitGroups /\ [][NextGroups]_vars

\* local paged tables constructed with and without a defaultSort, whose
\* headers are clicked and whose pager and search box are used
SortOptionSet ==
    { LocalPaged,
      [LocalPaged EXCEPT !.defaultSort =
          [form |-> "map", orders |-> <<[key |-> "age", dir |-> "desc"]>>]],
      [LocalPaged EXCEPT !.defaultSort =
          [form |-> "map", orders |-> <<[key |-> "rank", dir |-> "asc"],
                                        [key |-> "age", dir |-> "down"]>>]],
      [LocalPaged EXCEPT !.defaultSort =
          [form |-> "array", orders |-> <<[key |-> "age", dir |-> "desc"],
                                          [key |-> "name", dir |-> "asc"]>>]] }
InitOrder == InitTable(SortOptionSet, { <<1, 3, 2, 4>>, <<4, 2, 1>> })
NextOrder == SortBy \/ GoToPage \/ PageSizeChange \/ Search \/ Draw
SpecOrder == InitOrder /\ [][NextOrder]_vars

\* tables of the three sources whose search box, filter controls and pager are
\* used while a draw is in flight
InitMutate == InitRemote({AjaxOptions, LoadOnceOptions})
                 \/ InitTable({LocalPaged}, { <<1, 2, 3, 4>> })
NextMutate ==
    \/ Search \/ FilterChange \/ GoToPage \/ PageSizeChange
    \/ AjaxResponse \/ LoadOnceResponse
SpecMutate == InitMutate /\ [][NextMutate]_vars

\* a per-page remote table whose pager, search box and refresh() are used
InitPaging == InitRemote({AjaxOptions})
NextPaging == GoToPage \/ Search \/ PageSizeChange \/ Refresh \/ AjaxResponse \/ LoadFails
SpecPaging == InitPaging /\ [][NextPaging]_vars


(***************************************************************************)
(* Properties.                                                             *)
(***************************************************************************)
SettledIds == {p.id : p \in pending} \ {p.id : p \in pending'}

\* C1: in per-page remote mode, when the load of a draw older than the most
\* recently started one settles (before or after the newer draw's response), the
\* stored row page, the stored total and the rendered body stay as they were.
C1_StaleDrawNeverCommits ==
    [][ (IsAjax(opts) /\ \E id \in SettledIds : id < drawSeq)
            => UNCHANGED <<lastPageRows, totalRows, body>> ]_vars

\* the response of draw #1 arrives after draw #2 has committed its own result
C1_OlderResponseAfterNewerCommit ==
    /\ IsAjax(opts)
    /\ lastSettled.outcome = "response"
    /\ lastSettled.id < lastSettled.seq
    /\ lastCommit.id = lastSettled.seq
    /\ lastPageRows # <<>>

\* C2: in load-once mode at most one fetch is issued between construction (or the
\* latest refresh) and the next refresh, however many draws are started.
C2_OneFetchPerRefresh == opts.source = "loadOnce" => fetches = 1

\* C3: in per-page remote mode, when the caller's fetch or transform yielded
\* {rows: R, total: T}, the committed page is R and the committed total is T.
C3_CommitsYieldedRows ==
    (IsAjax(opts) /\ lastCommit.yielded)
        => (lastPageRows = lastCommit.rows /\ totalRows = lastCommit.total)

\* where a row stands in a result
Pos(rows, r) == CHOOSE i \in DOMAIN rows : rows[i] = r
ActiveKeys(r) ==
    LET specs == SortSpecs(qs, opts)
    IN  [i \in DOMAIN specs |-> SortKey(specs[i].col, r)]
KeysTie(ka, kb) == (ka.t = "n" /\ kb.t = "n") \/ (ka.t # "n" /\ kb.t # "n" /\ KeyDiff(ka, kb) = 0)

\* C4: the Local sort is stable: two rows whose sort keys are equal under every
\* active spec stand in the result in the order they have in the backing array.
C4_SortIsStable ==
    \A k \in DOMAIN results : \A i, j \in DOMAIN original :
        (i < j /\ ActiveKeys(original[i]) = ActiveKeys(original[j]))
            => Pos(results[k].rows, original[i]) < Pos(results[k].rows, original[j])

\* C5: the Local sort is lexicographic in the active specs: row a stands before
\* row b whenever, at the first spec where their (non-null) keys differ, a's key
\* compares before b's in that spec's direction.
C5_SortIsLexicographic ==
    \A k \in DOMAIN results : \A a, b \in DOMAIN original :
        LET specs == SortSpecs(qs, opts)
            ka    == ActiveKeys(original[a])
            kb    == ActiveKeys(original[b])
        IN  (\E i \in DOMAIN specs :
                /\ \A j \in 1..(i - 1) : KeysTie(ka[j], kb[j])
                /\ ka[i].t # "n" /\ kb[i].t # "n"
                /\ KeyDiff(ka[i], kb[i]) * specs[i].dir < 0)
            => Pos(results[k].rows, original[a]) < Pos(results[k].rows, original[b])

\* C6: when two rows tie on all earlier specs and exactly one has a null value
\* for the current spec, the row with the null stands after the other, in either
\* direction.
C6_NullSortsLast ==
    \A k \in DOMAIN results : \A a, b \in DOMAIN original :
        LET specs == SortSpecs(qs, opts)
            ka    == ActiveKeys(original[a])
            kb    == ActiveKeys(original[b])
        IN  (\E i \in DOMAIN specs :
                /\ \A j \in 1..(i - 1) : KeysTie(ka[j], kb[j])
                /\ ka[i].t = "n" /\ kb[i].t # "n")
            => Pos(results[k].rows, original[b]) < Pos(results[k].rows, original[a])

\* the rows the filter step and the search step keep
FilteredAndSearched == SearchRows(FilterRows(original, qs, opts), qs, opts)
InSeq(r, rows) == \E i \in DOMAIN rows : rows[i] = r
Unpaged(st) == [st EXCEPT !.pagingEnabled = FALSE]

\* the text q is in the stringified value, whatever the case
HasText(v, q) == ~IsNull(v) /\ Contains(ToLowerCase(ToStr(v)), ToLowerCase(q))

\* C7: with a non-blank search text q, a row that passed the filters is kept if
\* and only if a searchable column's resolved value contains q, or child rows are
\* enabled and a child has a searchable child column whose field contains q.
C7_SearchKeepsExactlyMatches ==
    \A k \in DOMAIN results :
        LET q       == qs.searchText
            passed  == FilterRows(original, qs, opts)
            cols    == Columns(opts)
            ccols   == ChildColumns(opts)
            kept    == LocalLoad(original, dtIndex, Unpaged(qs), opts, engine).rows
            Parent(r) == \E i \in DOMAIN cols :
                            cols[i].searchable /\ HasText(GetValue(cols[i], r, "search"), q)
            Child(r)  == /\ opts.childRows
                         /\ \E c \in DOMAIN RowData[r].children : \E j \in DOMAIN ccols :
                               /\ ccols[j].searchable
                               /\ HasText(ChildField(RowData[r].children[c], ccols[j].key), q)
        IN  Trim(q) # <<>> =>
                \A i \in DOMAIN passed :
                    InSeq(passed[i], kept) <=> (Parent(passed[i]) \/ Child(passed[i]))

\* C8: the total of a Local load is the number of rows that pass filter and
\* search, and it is the same for every page number, every page size and with
\* paging disabled.
C8_TotalIgnoresPaging ==
    LET kept   == Len(FilteredAndSearched)
        totals == {LocalLoad(original, dtIndex,
                             [qs EXCEPT !.page = pg.page, !.pageSize = pg.pageSize,
                                        !.pagingEnabled = pg.enabled],
                             opts, engine).total : pg \in PagingInputs}
    IN  \A k \in DOMAIN results : results[k].total = kept /\ totals = {kept}

\* a page of a load that is shorter than the rows filter and search keep
C8_PagedLoadOfLongerSet ==
    /\ results # <<>>
    /\ qs.pagingEnabled
    /\ qs.searchText # <<>>
    /\ HasActiveFilters(qs.filters)
    /\ Len(results[1].rows) < results[1].total

BeyondLastPage(st, total) == st.pagingEnabled /\ (st.page - 1) * st.pageSize >= total

\* C9: with paging enabled, a Local load of a page beyond the last valid one
\* resolves (it does not reject) with no rows and with the total of the unpaged
\* load.
C9_PageBeyondLastIsEmpty ==
    LET unpaged == LocalLoad(original, dtIndex, Unpaged(qs), opts, engine)
    IN  \A k \in DOMAIN results :
            BeyondLastPage(qs, Len(unpaged.rows))
                => /\ results[k].status = "resolved"
                   /\ results[k].rows = <<>>
                   /\ results[k].total = unpaged.total

\* a load of a page beyond the last one of a non-empty set
C9_LoadedBeyondLastPage ==
    /\ results # <<>>
    /\ Len(FilteredAndSearched) > 0
    /\ BeyondLastPage(qs, Len(FilteredAndSearched))

ShrinkingOps == {"search", "filter", "sortBy", "length", "setData", "refresh"}
LastPage == Max({1, Ceil(totalRows, qs.pageSize)})
C11_PageWithinLastPage ==
    (lastOp \in ShrinkingOps /\ pending = {} /\ lastCommit.id = drawSeq)
        => (1 <= qs.page /\ qs.page <= LastPage)

\* the keys of the parent rows rendered in tbody
RenderedKeys == Range(KeysOf(body, dtIndex))

\* C12: a step that draws (draw, goToPage, search, sortBy, a filter change, a
\* page-size change, setData, refresh) leaves the selection ledger as it was, and
\* every checkbox it renders is checked exactly when its row key is in the ledger.
C12_SelectionSurvivesDraws ==
    [][ (drawSeq' # drawSeq \/ lastCommit' # lastCommit)
            => /\ selectedRowKeys' = selectedRowKeys
               /\ \A k \in DOMAIN boxes' : boxes'[k] = (k \in selectedRowKeys') ]_vars

\* the table came back to page 1 through goToPage, and a selected row of that page
\* is rendered checked
C12_SelectedAfterReturning ==
    /\ lastOp = "goToPage"
    /\ qs.page = 1
    /\ \E k \in selectedRowKeys : k \in DOMAIN boxes /\ boxes[k]

\* the keys of the rendered rows that are in the group of the rendered row k
GroupMembers(k) ==
    {KeysOf(body, dtIndex)[i] :
        i \in {j \in DOMAIN body :
                  \E h \in DOMAIN body : /\ KeysOf(body, dtIndex)[h] = k
                                         /\ GroupKey(body[h]) = GroupKey(body[j])}}

\* C13: in group-select mode, toggling the checkbox of a rendered group adds to
\* (or removes from) the ledger exactly the keys of the rows of that group rendered
\* on the current page; no other key changes membership.
C13_GroupToggleActsOnItsMembers ==
    [][ \A k \in DOMAIN boxes :
            (GroupMode(opts) = "group" /\ ToggleRow(k))
                => selectedRowKeys' = IF boxes[k]
                                      THEN selectedRowKeys \ GroupMembers(k)
                                      ELSE selectedRowKeys \cup GroupMembers(k) ]_vars

\* the checkbox of a rendered group of two rows was toggled on, and the ledger
\* holds the two keys of that group and nothing else
C13_GroupOfTwoToggled ==
    /\ lastOp = "rowCheckbox"
    /\ GroupMode(opts) = "group"
    /\ Len(body) >= 2
    /\ \E g \in DOMAIN pageGroupRowKeyMap :
          /\ Len(pageGroupRowKeyMap[g]) = 2
          /\ Range(pageGroupRowKeyMap[g]) = selectedRowKeys
          /\ selectedRowKeys \subseteq RenderedKeys

\* C14: selectAllOnPage(), unselectAllOnPage() and the header checkbox add or
\* remove exactly the keys of the parent rows rendered on the current page, also
\* when that page is empty.
C14_PageControlsActOnRenderedRows ==
    [][ /\ SelectAllOnPage => selectedRowKeys' = selectedRowKeys \cup RenderedKeys
        /\ UnselectAllOnPage => selectedRowKeys' = selectedRowKeys \ RenderedKeys
        /\ HeaderSelectAll => selectedRowKeys' = IF headerSelect.checked
                                                 THEN selectedRowKeys \ RenderedKeys
                                                 ELSE selectedRowKeys \cup RenderedKeys
      ]_vars

\* C15: the header checkbox is checked exactly when the page has parent rows and
\* all their keys are in the ledger, and indeterminate exactly when some but not
\* all of them are (so it is unchecked and not indeterminate when none is, or the
\* page is empty).
C15_HeaderShowsPageSelection ==
    LET chosen == RenderedKeys \cap selectedRowKeys
    IN  /\ headerSelect.checked <=> (body # <<>> /\ chosen = RenderedKeys)
        /\ headerSelect.indeterminate <=> (chosen # {} /\ chosen # RenderedKeys)

\* C16: in group-select mode selectRow(key) puts into the ledger, and
\* unselectRow(key) takes out of it, the key of every rendered row of the group
\* of the row.
C16_SelectRowActsOnItsGroup ==
    [][ \A r \in Pool :
            (GroupMode(opts) = "group" /\ ToStr(Num(r)) \in RenderedKeys)
                => /\ SyncSelection("selectRow", selectedRowKeys \cup {ToStr(Num(r))})
                        => GroupMembers(ToStr(Num(r))) \subseteq selectedRowKeys'
                   /\ SyncSelection("unselectRow", selectedRowKeys \ {ToStr(Num(r))})
                        => GroupMembers(ToStr(Num(r))) \cap selectedRowKeys' = {} ]_vars

\* C17: with childRows.lazyLoad configured on a per-page remote table, the first
\* expansion of a rendered parent row whose child slot is empty issues one child
\* request.
C17_LazyExpandFetchesOnce ==
    [][ \A r \in Pool :
            ( /\ opts.lazyLoad /\ IsAjax(opts)
              /\ ToStr(Num(r)) \in RenderedKeys
              /\ ChildrenOfKey(ToStr(Num(r))) = <<>>
              /\ childFetches = 0
              /\ lastOp' = "expandChildRows"
              /\ ToStr(Num(r)) \in expandedRowKeys' \ expandedRowKeys )
                => childFetches' = 1 ]_vars

\* C18: rendered child rows belong to expanded parents only; collapseChildRows(k)
\* takes k out of the expansion ledger and removes the rendered child rows of k
\* and nothing else; collapseAllChildRows() empties the ledger and removes every
\* rendered child row.
C18_CollapseRemovesItsOwnRows ==
    [][ /\ DOMAIN childTrs' \subseteq expandedRowKeys'
        /\ \A k \in expandedRowKeys \ expandedRowKeys' :
              /\ lastOp' \in {"collapseChildRows", "collapseAllChildRows"}
              /\ lastOp' = "collapseChildRows"
                    => /\ expandedRowKeys' = expandedRowKeys \ {k}
                       /\ DOMAIN childTrs' = DOMAIN childTrs \ {k}
                       /\ \A x \in DOMAIN childTrs' : childTrs'[x] = childTrs[x]
              /\ lastOp' = "collapseAllChildRows"
                    => expandedRowKeys' = {} /\ DOMAIN childTrs' = {} ]_vars

\* one of two expanded parents with rendered child rows was collapsed: its child
\* rows are gone, the other parent's are still rendered
C18_CollapsedOneOfTwo ==
    /\ lastOp = "collapseChildRows"
    /\ DOMAIN childTrs # {}
    /\ \E k \in RenderedKeys : /\ k \notin expandedRowKeys
                               /\ ChildrenOfKey(k) # <<>>

\* C19: a draw whose load fails with an AbortError reports nothing and its
\* promise resolves; a draw whose load fails with any other error is reported to
\* the error hook or event once and its promise rejects; settling a failed load
\* starts no draw and no fetch.
C19_FailuresReportedThenRethrown ==
    [][ (lastSettled' # lastSettled /\ lastSettled'.outcome # "response")
            => /\ lastSettled'.outcome = "abort"
                    => /\ errorsReported' = errorsReported
                       /\ lastSettled'.promise = "resolved"
               /\ lastSettled'.outcome # "abort"
                    => /\ errorsReported' = errorsReported + 1
                       /\ lastSettled'.promise = "rejected"
               /\ lastSettled'.seq = drawSeq => /\ drawSeq' = drawSeq
                                                /\ fetches' = fetches
                                                /\ pending' \subseteq pending ]_vars

\* C20: load never throws in the frame of its caller, whichever source it
\* belongs to and whichever function of the options fails.
C20_LoadNeverThrows == lastSettled.outcome # "threw"

\* C21: a draw commits the rows and the total of the QueryState it was started
\* with: a per-page remote draw commits only while the state is still the one
\* its request was built from, and a draw served from the local backing store
\* (a local source, or a load-once source when its fetch resolves) commits the
\* page and total of the state at its start, whatever was changed meanwhile.
C21_DrawUsesStateAtItsStart ==
    [][ /\ \A d \in pending \ pending' :
              (lastCommit' # lastCommit /\ lastCommit'.id = d.id)
                  => IF IsAjax(opts) THEN d.state = qs
                     ELSE /\ lastPageRows' =
                               LocalLoad(original', dtIndex', d.state, opts, engine).rows
                          /\ totalRows' =
                               LocalLoad(original', dtIndex', d.state, opts, engine).total
        /\ (opts.source = "local" /\ drawSeq' # drawSeq)
              => lastPageRows' = LocalLoad(original', dtIndex', qs', opts, engine).rows ]_vars

\* the direction state.sortOrders holds for a key, "none" when it holds none
DirOf(orders, key) ==
    IF \E j \in DOMAIN orders : orders[j].key = key
    THEN orders[CHOOSE j \in DOMAIN orders : orders[j].key = key].dir
    ELSE "none"

\* C22: sortBy(key) without append on a sortable column moves the direction of
\* the key one step along none -> asc -> desc -> none, leaves only that key in
\* sortOrders (nothing at none), resets the page to 1 and draws; no step is a
\* sortBy of a column that is unknown or not sortable.
C22_SortByCyclesDirection ==
    [][ /\ SortByKey("age", FALSE)
            => /\ DirOf(qs'.sortOrders, "age")
                    = ( CASE DirOf(qs.sortOrders, "age") = "none" -> "asc"
                          [] DirOf(qs.sortOrders, "age") = "asc"  -> "desc"
                          [] OTHER -> "none" )
               /\ \A j \in DOMAIN qs'.sortOrders : qs'.sortOrders[j].key = "age"
               /\ Len(qs'.sortOrders) <= 1
               /\ qs'.page = 1
               /\ drawSeq' = drawSeq + 1
        /\ \A key \in {"vip", "zip"} : \A append \in BOOLEAN : ~SortByKey(key, append) ]_vars

\* the last click of the cycle on a table constructed with the key sorted desc:
\* the order of the key is gone and the page is 1
C22_CycleClosed ==
    /\ lastOp = "sortBy"
    /\ qs.sortOrders = <<>>
    /\ qs.page = 1
    /\ opts.defaultSort = [form |-> "map", orders |-> <<[key |-> "age", dir |-> "desc"]>>]

\* C23: a defaultSort given as an array of {key, dir} becomes state.sortOrders,
\* in its order, and the draw of the constructor shows the rows sorted by it.
C23_ArrayDefaultSortApplies ==
    (opts.defaultSort.form = "array" /\ lastOp = "constructor")
        => /\ qs.sortOrders = opts.defaultSort.orders
           /\ lastPageRows =
                 LocalLoad(original, dtIndex,
                           [qs EXCEPT !.sortOrders = opts.defaultSort.orders],
                           opts, engine).rows

\* the position of a row in a list of distinct rows
IndexIn(rows, r) == CHOOSE i \in DOMAIN rows : rows[i] = r

\* C24: the groups built from the rows of the page partition them: every row is
\* in exactly one group, two rows share a group iff the JSON texts of their key
\* tuples are equal, the groups come in the order in which their keys first
\* occur, and the rows of a group keep their order.
C24_GroupsPartitionThePage ==
    HasGrouping(opts) =>
        LET rows   == lastPageRows
            groups == BuildGroups(rows)
            In(n)  == {groups[n].rows[i] : i \in DOMAIN groups[n].rows}
            First(n) == Min({IndexIn(rows, r) : r \in In(n)})
        IN  /\ body = Flatten(groups)
            /\ \A i \in DOMAIN rows :
                  Cardinality({n \in DOMAIN groups : rows[i] \in In(n)}) = 1
            /\ Len(Flatten(groups)) = Len(rows)
            /\ \A i, j \in DOMAIN rows :
                  (\E n \in DOMAIN groups : rows[i] \in In(n) /\ rows[j] \in In(n))
                      <=> JsonStringify([k \in DOMAIN GroupingKeys |->
                                            RowField(rows[i], GroupingKeys[k])])
                            = JsonStringify([k \in DOMAIN GroupingKeys |->
                                              RowField(rows[j], GroupingKeys[k])])
            /\ \A n, m \in DOMAIN groups : n < m => First(n) < First(m)
            /\ \A n \in DOMAIN groups : \A i, j \in DOMAIN groups[n].rows :
                  i < j => IndexIn(rows, groups[n].rows[i]) < IndexIn(rows, groups[n].rows[j])

\* setData was drawn, and on the page the rows of one group are not next to each
\* other
C24_GroupOfSeparatedRows ==
    /\ HasGrouping(opts)
    /\ lastOp = "setData"
    /\ \E i, j \in DOMAIN lastPageRows :
          /\ i + 1 < j
          /\ GroupKey(lastPageRows[i]) = GroupKey(lastPageRows[j])
          /\ GroupKey(lastPageRows[i + 1]) # GroupKey(lastPageRows[i])
    /\ body # lastPageRows

\* the trs of tbody, and the number of grid columns row i of them covers: its own
\* cells and the cells of rows above whose rowSpan reaches it
Grid == BodyTrs(1, body, KeysOf(body, dtIndex), childTrs, opts)
Covered(grid, i) ==
    Len(grid[i].cells)
      + Cardinality({jc \in UNION {{<<j, c>> : c \in DOMAIN grid[j].cells} : j \in 1..(i - 1)} :
                        grid[jc[1]].cells[jc[2]] > i - jc[1]})

\* C25: every child row of the rendered body has as many cells as the grid has
\* visible columns (the selection column included), and every rendered row,
\* with the cells spanning into it from rows above, covers exactly that many
\* columns.
C25_RowsCoverTheGrid ==
    \A i \in DOMAIN Grid :
        /\ Grid[i].child => Len(Grid[i].cells) = VisibleColumnCount(opts)
        /\ Covered(Grid, i) = VisibleColumnCount(opts)

\* C26: the child rows in tbody are the children of the rendered parents whose
\* key is in the expansion ledger, each child rendered once.
C26_ChildRowsMatchTheLedger ==
    /\ DOMAIN childTrs =
          {k \in RenderedKeys \cap expandedRowKeys : ChildrenOfKey(k) # <<>>}
    /\ \A k \in DOMAIN childTrs : childTrs[k] = Len(ChildrenOfKey(k))

\* C27: every draw loads with the pagingEnabled value of the table, whether a
\* getFullData call is in flight or not, and once no getFullData call is in
\* flight state.pagingEnabled is what it was before the calls.
C27_ExportInvisibleToDraws ==
    [][ /\ drawSeq' # drawSeq => qs'.pagingEnabled = opts.paging
        /\ exports' = <<>> => qs'.pagingEnabled = opts.paging ]_vars

\* C28: in per-page remote mode the settling of a draw that a newer draw has
\* superseded, whatever its outcome, commits nothing, reports no error, and
\* leaves the loading indicator alone while the newer draw is in flight.
C28_SupersededDrawIsSilent ==
    [][ \A d \in pending \ pending' :
            (IsAjax(opts) /\ d.id < drawSeq)
                => /\ UNCHANGED <<lastPageRows, totalRows, body, lastCommit>>
                   /\ errorsReported' = errorsReported
                   /\ (\E n \in pending' : n.id = drawSeq) => loading' = loading ]_vars

\* C29: the comparator of the local sort is transitive on the rows of the
\* backing array, for the sort specs of the state: a before b and b before c
\* put a before c.
C29_ComparatorIsTransitive ==
    LET specs == SortSpecs(qs, opts)
        keyed == Keyed(original, dtIndex, specs)
    IN  \A a, b, c \in DOMAIN keyed :
            (Compare(keyed[a], keyed[b], specs) < 0 /\ Compare(keyed[b], keyed[c], specs) < 0)
                => Compare(keyed[a], keyed[c], specs) < 0

\* C30: after any sequence of setData calls the rows of the backing array carry
\* pairwise distinct __dt_index values, so the keys derived from the index of
\* two distinct rows never coincide.
C30_OriginalIndexesDistinct ==
    \A i, j \in DOMAIN original :
        i # j => /\ dtIndex[original[i]] # dtIndex[original[j]]
                 /\ NumToStr(dtIndex[original[i]]) # NumToStr(dtIndex[original[j]])

====
